---- MODULE Spec2Model ----
(***************************************************************************)
(* Model of dnd-roller/main.js: the die template and stage loads, spawnDie, *)
(* clearAllDice, the roll-button and keydown handlers, the 90 s removal     *)
(* timers, syncAll and the animate frame.                                   *)
(*                                                                          *)
(* Lengths are integers in hundredths of a world unit (0.02 is 2, 1.5 is    *)
(* 150), times are milliseconds.  A cannon-es world.step is an external     *)
(* solver: it is modelled as a nondeterministic choice, for every die body  *)
(* in the world, between staying where it is and moving to one of a few     *)
(* sample poses (resting on the stage, moved sideways, tunnelled below it). *)
(***************************************************************************)
EXTENDS Integers, Sequences, FiniteSets

VARIABLES diceTemplate, diceLoad, stageLoad, stageTopY, diceObjects,
          worldBodies, sceneChildren, timers, nextId, frameRequested, last

vars == <<diceTemplate, diceLoad, stageLoad, stageTopY, diceObjects,
          worldBodies, sceneChildren, timers, nextId, frameRequested, last>>

(* ------------------------------ bounds --------------------------------- *)

\* dice ever created in one run (body identities 1..MaxDice)
MaxDice == 2

(* ------------------------- program constants --------------------------- *)

RemoveDelay == 90000
Clearance == 2
ReclampMargin == 5
MinSpawnMargin == 150
DefaultDieHalf == 60
RadiusNum == 9
RadiusDen == 10
FallbackHalf == 50

(* --------------------------- input samples ----------------------------- *)

\* one clock advance, in ms: two advances make the 90 s of the timer
TickMs == RemoveDelay \div 2
\* bounding-box sizes <<x, y, z>> a dice.glb can have (with quaternion 1 the
\* box of a die is <<100, 120, 80>>: another half-height, another radius)
TemplateSizes == {<<100, 80, 120>>}
\* scene.glb files: the stage top (bb.max.y) and the meshes whose Trimesh
\* construction throws
StageMeshes == {1, 2}
Stages == {[top |-> 200, failing |-> {}], [top |-> 0, failing |-> {1}]}
\* horizontal targets <<x, z>> the roll button can aim at
Targets == {<<0, 0>>, <<60, 80>>}
\* direct spawnDie calls: position <<x, y, z>> and quaternion (0 is the
\* identity, 1 a quarter turn about the X axis)
SpawnRequests == {[position |-> <<0, 0, 0>>, quaternion |-> 1],
                  [position |-> <<60, 400, 80>>, quaternion |-> 0]}
\* keys of a keydown event
Keys == {"r", "R", "x"}
\* poses a physics step can move a die body to: rolled aside and tunnelled
\* below the stage
PhysPoses == {[pos |-> <<0, -100, 0>>, quat |-> 1]}
\* the body is left where it is (asleep, or no substep was due)
Stay == [pos |-> <<0, 0, 0>>, quat |-> -1]
\* where a frame throws: nowhere, in world.step, or in the update and render
FrameFaults == {"none", "step", "render"}

(* ------------------------------ helpers -------------------------------- *)

Max2(a, b) == IF a >= b THEN a ELSE b
Max3(a, b, c) == Max2(a, Max2(b, c))

NoTemplate == [loaded |-> FALSE, size |-> <<0, 0, 0>>, halfHeight |-> 0]
NoPos == <<0, 0, 0>>

DieRef(id) == [kind |-> "die", id |-> id]
StageMeshRef(m) == [kind |-> "stageMesh", id |-> m]
\* the fallback plane: groundBody.position.set(0, stageTopY, 0)
GroundRef(top) == [kind |-> "ground", id |-> 0, y |-> top]
StageRootRef == [kind |-> "stageRoot", id |-> 0]
LightTargetRef == [kind |-> "lightTarget", id |-> 0]
AmbientRef == [kind |-> "ambient", id |-> 0]
DirLightRef == [kind |-> "dirLight", id |-> 0]

Count(seq, x) == Cardinality({i \in 1..Len(seq) : seq[i] = x})
Has(seq, x) == \E i \in 1..Len(seq) : seq[i] = x
IndexOf(seq, x) == IF Has(seq, x) THEN CHOOSE i \in 1..Len(seq) :
                        seq[i] = x /\ \A j \in 1..(i - 1) : seq[j] # x
                   ELSE 0
Splice(seq, i) == [j \in 1..(Len(seq) - 1) |-> IF j < i THEN seq[j] ELSE seq[j + 1]]

\* cannon-es World.addBody: a body already in the world is not added again
AddBody(bodies, b) == IF Has(bodies, b) THEN bodies ELSE Append(bodies, b)
\* mutant: the oldest body of the world is removed in place of the given one
MutRemoveBody_Oldest(bodies, b) == IF Has(bodies, b) THEN Tail(bodies) ELSE bodies

\* cannon-es World.removeBody: splice the body out if it is there
RemoveBody(bodies, b) == IF Has(bodies, b) THEN Splice(bodies, IndexOf(bodies, b)) ELSE bodies
\* three.js Object3D.add: detach from the current parent, then push
SceneAdd(children, o) == Append(IF Has(children, o) THEN Splice(children, IndexOf(children, o)) ELSE children, o)
\* three.js Object3D.remove: splice the child out if it is there
SceneRemove(children, o) == IF Has(children, o) THEN Splice(children, IndexOf(children, o)) ELSE children

LiveIds(dice) == {dice[i].id : i \in 1..Len(dice)}

(* --------------------------- pure functions ----------------------------- *)

\* Box3.setFromObject(mesh).getSize: the axis-aligned box of the template
\* under the mesh's quaternion (a quarter turn about X swaps Y and Z)
BoxSize(size, quaternion) ==
    IF quaternion = 0 THEN size ELSE <<size[1], size[3], size[2]>>

\* dist < horizRadius, with horizRadius = Math.max(size.x, size.z) * 0.9
WithinRadius(dx, dz, size) ==
    RadiusDen * RadiusDen * (dx * dx + dz * dz)
        < RadiusNum * RadiusNum * Max2(size[1], size[3]) * Max2(size[1], size[3])

\* d.halfHeight || 0.5 (the die mesh is a cloned scene root, it has no geometry)
OtherHalf(d) == IF d.halfHeight # 0 THEN d.halfHeight ELSE FallbackHalf

\* one iteration of the scan over diceObjects: the tracked highest top
ScanOne(d, position, size, highestTop) ==
    IF /\ WithinRadius(d.mesh.pos[1] - position[1], d.mesh.pos[3] - position[3], size)
       /\ d.mesh.pos[2] + OtherHalf(d) > highestTop
    THEN d.mesh.pos[2] + OtherHalf(d)
    ELSE highestTop

RECURSIVE ScanFrom(_, _, _, _, _)
ScanFrom(dice, i, position, size, highestTop) ==
    IF i > Len(dice) THEN highestTop
    ELSE ScanFrom(dice, i + 1, position, size, ScanOne(dice[i], position, size, highestTop))

\* the placement floor: the stage top raised by the nearby dice
HighestTop(dice, position, size) == ScanFrom(dice, 1, position, size, stageTopY)

\* mutant: the body is always put at the minimum safe height
MutPlacedPos_AlwaysMinSafe(position, highestTop, halfHeight) ==
    <<position[1], highestTop + halfHeight + Clearance, position[3]>>

\* body.position.set after "if (position.y < minSafeY) position.y = minSafeY"
PlacedPos(position, highestTop, halfHeight) ==
    <<position[1], Max2(position[2], highestTop + halfHeight + Clearance), position[3]>>

\* world.step: every die body in the world stays or takes the pose f gives it
StepBody(body, choice) == IF choice = Stay THEN body ELSE choice

WorldStep(dice, bodies, f) ==
    [i \in 1..Len(dice) |->
        IF Has(bodies, DieRef(dice[i].id))
        THEN [dice[i] EXCEPT !.body = StepBody(dice[i].body, f[dice[i].id])]
        ELSE dice[i]]

\* the corrective check after the pre-roll: lift body and mesh to the stage
ReclampY(size) == stageTopY + Max3(size[1] \div 2, size[2] \div 2, size[3] \div 2) + ReclampMargin

\* mutant: no corrective check after the pre-roll
MutReclamp_Never(d, size) == d

Reclamp(d, size) ==
    IF d.body.pos[2] < ReclampY(size)
    THEN [d EXCEPT !.body.pos[2] = ReclampY(size), !.mesh.pos[2] = ReclampY(size)]
    ELSE d

\* the die as it is after world.addBody: mesh at the requested pose, body placed
NewDie(id, position, quaternion, dice) ==
    [id |-> id,
     mesh |-> [pos |-> position, quat |-> quaternion],
     body |-> [pos |-> PlacedPos(position,
                                 HighestTop(dice, position, BoxSize(diceTemplate.size, quaternion)),
                                 BoxSize(diceTemplate.size, quaternion)[2] \div 2),
               quat |-> quaternion],
     age |-> 0,
     halfHeight |-> BoxSize(diceTemplate.size, quaternion)[2] \div 2]

\* mutant: the timer is scheduled with no delay
MutNewTimer_NoDelay(id) == [id |-> id, remaining |-> 0]

\* setTimeout(callback, 90_000) for the die with body identity id
NewTimer(id) == [id |-> id, remaining |-> RemoveDelay]

\* spawnDie past its readiness check; f is the outcome of the six pre-roll
\* sub-steps (the velocity argument only feeds the solver)
SpawnDieLoaded(W, id, position, quaternion, f) ==
    LET d0 == NewDie(id, position, quaternion, W.dice)
        bodies1 == AddBody(W.bodies, DieRef(id))
        d1 == [d0 EXCEPT !.body = StepBody(d0.body, f[id])]
        d2 == Reclamp(d1, BoxSize(diceTemplate.size, quaternion))
    IN [ret |-> id,
        placed |-> d0.body.pos,
        dice |-> Append(WorldStep(W.dice, bodies1, f), d2),
        bodies |-> bodies1,
        children |-> SceneAdd(W.children, DieRef(id)),
        timers |-> W.timers \cup {NewTimer(id)}]

\* mutant: spawnDie without its readiness check
MutSpawnDie_NoReadyCheck(W, id, position, quaternion, f) ==
    SpawnDieLoaded(W, id, position, quaternion, f)

\* spawnDie(position, quaternion, velocity) on the world W
SpawnDie(W, id, position, quaternion, f) ==
    IF ~diceTemplate.loaded
    THEN [ret |-> 0, placed |-> NoPos, dice |-> W.dice, bodies |-> W.bodies,
          children |-> W.children, timers |-> W.timers]
    ELSE SpawnDieLoaded(W, id, position, quaternion, f)

\* mutant: the loop pops the entry and removes the mesh, the body stays
MutClearOne_KeepBody(W) ==
    [W EXCEPT !.dice = SubSeq(W.dice, 1, Len(W.dice) - 1),
              !.children = SceneRemove(W.children, DieRef(W.dice[Len(W.dice)].id))]

\* one iteration of the clearAllDice loop: pop, removeBody, scene.remove
ClearOne(W) ==
    [W EXCEPT !.dice = SubSeq(W.dice, 1, Len(W.dice) - 1),
              !.bodies = RemoveBody(W.bodies, DieRef(W.dice[Len(W.dice)].id)),
              !.children = SceneRemove(W.children, DieRef(W.dice[Len(W.dice)].id))]

\* mutant: one pass of the loop per call (if instead of while)
MutClearAllDice_OnePass(W) == IF Len(W.dice) = 0 THEN W ELSE ClearOne(W)

\* mutant: the call removes nothing
MutClearAllDice_Nothing(W) == W

RECURSIVE ClearAllDice(_)
ClearAllDice(W) == IF Len(W.dice) = 0 THEN W ELSE ClearAllDice(ClearOne(W))

\* mutant: the timer callback removes body and entry, the mesh stays
MutRemoveExpired_KeepMesh(W, id) ==
    IF \E i \in 1..Len(W.dice) : W.dice[i].id = id
    THEN [W EXCEPT !.dice = Splice(W.dice, CHOOSE i \in 1..Len(W.dice) : W.dice[i].id = id),
                   !.bodies = RemoveBody(W.bodies, DieRef(id))]
    ELSE W

\* mutant: no idx >= 0 test, so a callback whose die is gone splices at -1
\* and removes the last die of the collection
MutRemoveExpired_NoFoundTest(W, id) ==
    IF Len(W.dice) = 0 THEN W
    ELSE LET idx == IF \E i \in 1..Len(W.dice) : W.dice[i].id = id
                    THEN CHOOSE i \in 1..Len(W.dice) : W.dice[i].id = id
                    ELSE Len(W.dice)
         IN [W EXCEPT !.dice = Splice(W.dice, idx),
                      !.bodies = RemoveBody(W.bodies, DieRef(W.dice[idx].id)),
                      !.children = SceneRemove(W.children, DieRef(W.dice[idx].id))]

\* the setTimeout callback of the die with body identity id
RemoveExpired(W, id) ==
    IF \E i \in 1..Len(W.dice) : W.dice[i].id = id
    THEN LET idx == CHOOSE i \in 1..Len(W.dice) :
                        W.dice[i].id = id /\ \A j \in 1..(i - 1) : W.dice[j].id # id
         IN [W EXCEPT !.dice = Splice(W.dice, idx),
                      !.bodies = RemoveBody(W.bodies, DieRef(id)),
                      !.children = SceneRemove(W.children, DieRef(W.dice[idx].id))]
    ELSE W

\* mutant: only the position is copied
MutSyncOne_PositionOnly(d) == [d EXCEPT !.mesh.pos = d.body.pos]

\* syncAll: copy body position and quaternion onto the mesh
SyncOne(d) == [d EXCEPT !.mesh = [pos |-> d.body.pos, quat |-> d.body.quat]]

SyncAll(dice) == [i \in 1..Len(dice) |-> SyncOne(dice[i])]

\* renderer.render(scene): the poses of the die meshes that are in the scene
Render(dice, children) ==
    {[id |-> dice[i].id, pos |-> dice[i].mesh.pos, quat |-> dice[i].mesh.quat] :
        i \in {j \in 1..Len(dice) : Has(children, DieRef(dice[j].id))}}

\* mutant: the transforms are copied before the world is stepped
MutFrame_SyncBeforeStep(dice, bodies, children, f) ==
    [dice |-> WorldStep(SyncAll(dice), bodies, f),
     drawn |-> Render(WorldStep(SyncAll(dice), bodies, f), children)]

\* one animate frame on dice: step, sync, render
Frame(dice, bodies, children, f) ==
    LET stepped == WorldStep(dice, bodies, f)
        synced == SyncAll(stepped)
    IN [dice |-> synced, drawn |-> Render(synced, children)]

\* a frame in which an error is thrown: by world.step (cannon-es integrates
\* the positions last, after the collision and solver passes an error comes
\* from, so the bodies are where they were; nothing is copied or drawn) or
\* by controls.update or renderer.render (stepped and copied, nothing drawn)
FrameThrown(dice, bodies, children, f, at) ==
    IF at = "step" THEN [dice |-> dice, drawn |-> {}]
    ELSE [dice |-> SyncAll(WorldStep(dice, bodies, f)), drawn |-> {}]

\* mutant: the next frame is requested at the end of the frame
MutFrameRequestedAfter_AtEnd(at) == at = "none"

\* whether a next frame is requested once a frame is over, at being where
\* the frame threw: requestAnimationFrame(animate) is animate's first statement
FrameRequestedAfter(at) == TRUE

\* e.key.toLowerCase()
ToLowerCase(key) == IF key = "R" THEN "r" ELSE key

\* the roll button's drop height: planeY + dieHalf + Math.max(1.5, dieHalf * 2)
DieHalf == IF diceTemplate.loaded /\ diceTemplate.halfHeight # 0
           THEN diceTemplate.halfHeight ELSE DefaultDieHalf

DropY == stageTopY + DieHalf + Max2(MinSpawnMargin, DieHalf * 2)

(* ------------------------------- state --------------------------------- *)

\* the mutable world the handlers work on
World == [dice |-> diceObjects, bodies |-> worldBodies,
          children |-> sceneChildren, timers |-> timers]

WorldDieIds(bodies) == {bodies[i].id : i \in {j \in 1..Len(bodies) : bodies[j].kind = "die"}}

PhysChoice == PhysPoses \cup {Stay}

ClearOps == {"clearAllDice", "keyR"}
SpawnOps == {"spawnDie", "click"}

\* what the last handler did: its name, spawnDie's return value (0 is null),
\* the dice live when it began, whether the handler before it was a clear,
\* the requested and the placed position of a spawn, what a frame rendered
Did(op, ret, req, placed, drawn) ==
    [op |-> op, ret |-> ret, pre |-> LiveIds(diceObjects),
     afterClear |-> last.op \in ClearOps,
     req |-> req, placed |-> placed, drawn |-> drawn]

Init ==
    /\ diceTemplate = NoTemplate
    /\ diceLoad = "pending"
    /\ stageLoad = "pending"
    /\ stageTopY = 0
    /\ diceObjects = <<>>
    /\ worldBodies = <<>>
    /\ sceneChildren = <<AmbientRef, DirLightRef>>
    /\ timers = {}
    /\ nextId = 1
    /\ frameRequested = TRUE
    /\ last = [op |-> "boot", ret |-> 0, pre |-> {}, afterClear |-> FALSE,
               req |-> NoPos, placed |-> NoPos, drawn |-> {}]

(* ------------------------------ actions -------------------------------- *)

\* the static bodies of the stage meshes whose Trimesh could be built
RECURSIVE AddStageBodies(_, _, _)
AddStageBodies(bodies, meshes, failing) ==
    IF meshes = {} THEN bodies
    ELSE LET m == CHOOSE x \in meshes : \A y \in meshes : x <= y
         IN AddStageBodies(IF m \in failing THEN bodies ELSE AddBody(bodies, StageMeshRef(m)),
                           meshes \ {m}, failing)

\* mutant: one try around the whole traversal, the first failure ends it
MutStageBodies_FailureEndsTraversal(bodies, top, failing) ==
    AddStageBodies(AddBody(bodies, GroundRef(top)),
                   {m \in StageMeshes : \A x \in failing : m < x}, failing)

\* the bodies after the loadStage callback: fallback plane, then the meshes
StageBodies(bodies, top, failing) ==
    AddStageBodies(AddBody(bodies, GroundRef(top)), StageMeshes, failing)

\* loader.load('./scene.glb') succeeds
LoadStageOk(top, failing) ==
    /\ stageLoad = "pending"
    /\ stageLoad' = "done"
    /\ stageTopY' = top
    /\ sceneChildren' = SceneAdd(SceneAdd(sceneChildren, StageRootRef), LightTargetRef)
    /\ worldBodies' = StageBodies(worldBodies, top, failing)
    /\ last' = Did("loadStage", 0, NoPos, NoPos, {})
    /\ UNCHANGED <<frameRequested, diceTemplate, diceLoad, diceObjects, timers, nextId>>

\* loader.load('./scene.glb') fails
LoadStageFail ==
    /\ stageLoad = "pending"
    /\ stageLoad' = "failed"
    /\ last' = Did("loadStageFailed", 0, NoPos, NoPos, {})
    /\ UNCHANGED <<frameRequested, diceTemplate, diceLoad, stageTopY, diceObjects, worldBodies,
                   sceneChildren, timers, nextId>>

\* loader.load('./dice.glb') succeeds
LoadDiceTemplateOk(size) ==
    /\ diceLoad = "pending"
    /\ diceLoad' = "done"
    /\ diceTemplate' = [loaded |-> TRUE, size |-> size, halfHeight |-> size[2] \div 2]
    /\ last' = Did("loadDice", 0, NoPos, NoPos, {})
    /\ UNCHANGED <<frameRequested, stageLoad, stageTopY, diceObjects, worldBodies, sceneChildren,
                   timers, nextId>>

\* mutant: a failed template load falls back to a unit box template
MutLoadDiceTemplateFail_FallbackBox ==
    /\ diceLoad = "pending"
    /\ diceLoad' = "failed"
    /\ diceTemplate' = [loaded |-> TRUE, size |-> <<100, 100, 100>>, halfHeight |-> FallbackHalf]
    /\ last' = Did("loadDiceFailed", 0, NoPos, NoPos, {})
    /\ UNCHANGED <<frameRequested, stageLoad, stageTopY, diceObjects, worldBodies,
                   sceneChildren, timers, nextId>>

\* loader.load('./dice.glb') fails
LoadDiceTemplateFail ==
    /\ diceLoad = "pending"
    /\ diceLoad' = "failed"
    /\ last' = Did("loadDiceFailed", 0, NoPos, NoPos, {})
    /\ UNCHANGED <<frameRequested, diceTemplate, stageLoad, stageTopY, diceObjects, worldBodies,
                   sceneChildren, timers, nextId>>

\* the world and the bookkeeping after a handler that ran spawnDie
Spawned(op, out, position) ==
    /\ diceObjects' = out.dice
    /\ worldBodies' = out.bodies
    /\ sceneChildren' = out.children
    /\ timers' = out.timers
    /\ nextId' = IF out.ret = 0 THEN nextId ELSE nextId + 1
    /\ last' = Did(op, out.ret, position, out.placed, {})
    /\ UNCHANGED <<frameRequested, diceTemplate, diceLoad, stageLoad, stageTopY>>

\* a call spawnDie(position, quaternion, velocity)
SpawnDieCall(position, quaternion) ==
    /\ diceTemplate.loaded => nextId <= MaxDice
    /\ \E f \in [WorldDieIds(worldBodies) \cup {nextId} -> PhysChoice] :
          Spawned("spawnDie", SpawnDie(World, nextId, position, quaternion, f), position)

\* the roll button's click handler; point is what screenToWorldAtY returns
Click(point) ==
    /\ diceTemplate.loaded => nextId <= MaxDice
    /\ IF ~diceTemplate.loaded
       THEN /\ last' = Did("click", 0, NoPos, NoPos, {})
            /\ UNCHANGED <<frameRequested, diceTemplate, diceLoad, stageLoad, stageTopY, diceObjects,
                           worldBodies, sceneChildren, timers, nextId>>
       ELSE \E f \in [WorldDieIds(ClearAllDice(World).bodies) \cup {nextId} -> PhysChoice] :
               Spawned("click",
                       SpawnDie(ClearAllDice(World), nextId, <<point[1], DropY, point[2]>>, 0, f),
                       <<point[1], DropY, point[2]>>)

\* a call clearAllDice()
ClearCall ==
    /\ diceObjects' = ClearAllDice(World).dice
    /\ worldBodies' = ClearAllDice(World).bodies
    /\ sceneChildren' = ClearAllDice(World).children
    /\ last' = Did("clearAllDice", 0, NoPos, NoPos, {})
    /\ UNCHANGED <<frameRequested, diceTemplate, diceLoad, stageLoad, stageTopY, timers, nextId>>

\* the keydown handler's loop: pop, world.removeBody, scene.remove
RECURSIVE KeyClear(_)
KeyClear(W) == IF Len(W.dice) = 0 THEN W ELSE KeyClear(ClearOne(W))

\* the keydown handler
KeyDown(key) ==
    IF ToLowerCase(key) = "r"
    THEN /\ diceObjects' = KeyClear(World).dice
         /\ worldBodies' = KeyClear(World).bodies
         /\ sceneChildren' = KeyClear(World).children
         /\ last' = Did("keyR", 0, NoPos, NoPos, {})
         /\ UNCHANGED <<frameRequested, diceTemplate, diceLoad, stageLoad, stageTopY, timers, nextId>>
    ELSE UNCHANGED vars

\* a removal timer comes due and its callback runs
Timeout(t) ==
    /\ t \in timers
    /\ t.remaining = 0
    /\ diceObjects' = RemoveExpired(World, t.id).dice
    /\ worldBodies' = RemoveExpired(World, t.id).bodies
    /\ sceneChildren' = RemoveExpired(World, t.id).children
    /\ timers' = timers \ {t}
    /\ last' = Did("timeout", t.id, NoPos, NoPos, {})
    /\ UNCHANGED <<frameRequested, diceTemplate, diceLoad, stageLoad, stageTopY, nextId>>

\* one animate frame that runs to its end
AnimateDone(f) ==
    /\ diceObjects' = Frame(diceObjects, worldBodies, sceneChildren, f).dice
    /\ last' = Did("animate", 0, NoPos, NoPos,
                   Frame(diceObjects, worldBodies, sceneChildren, f).drawn)

\* one animate frame cut short by an error thrown at the step or the render
AnimateThrew(f, at) ==
    /\ diceObjects' = FrameThrown(diceObjects, worldBodies, sceneChildren, f, at).dice
    /\ last' = Did("animateThrew", 0, NoPos, NoPos, {})

\* the browser runs the requested animation frame callback
Animate ==
    /\ frameRequested
    /\ \E at \in FrameFaults :
       \E f \in IF at = "step" THEN {[id \in WorldDieIds(worldBodies) |-> Stay]}
                 ELSE [WorldDieIds(worldBodies) -> PhysChoice] :
        /\ frameRequested' = FrameRequestedAfter(at)
        /\ IF at = "none" THEN AnimateDone(f) ELSE AnimateThrew(f, at)
        /\ UNCHANGED <<diceTemplate, diceLoad, stageLoad, stageTopY, worldBodies,
                       sceneChildren, timers, nextId>>

\* the clock advances by TickMs: every die is that much older (performance.now()
\* - born, counted up to RemoveDelay) and every pending timer that much nearer
Older(d) == [d EXCEPT !.age = IF d.age + TickMs >= RemoveDelay THEN RemoveDelay ELSE d.age + TickMs]

Nearer(t) == [t EXCEPT !.remaining = IF t.remaining <= TickMs THEN 0 ELSE t.remaining - TickMs]

Tick ==
    /\ \/ \E t \in timers : t.remaining > 0
       \/ \E i \in 1..Len(diceObjects) : diceObjects[i].age < RemoveDelay
    /\ diceObjects' = [i \in 1..Len(diceObjects) |-> Older(diceObjects[i])]
    /\ timers' = {Nearer(t) : t \in timers}
    /\ UNCHANGED <<frameRequested, diceTemplate, diceLoad, stageLoad, stageTopY,
                   worldBodies, sceneChildren, nextId, last>>

Loads ==
    \/ \E stage \in Stages : LoadStageOk(stage.top, stage.failing)
    \/ LoadStageFail
    \/ \E size \in TemplateSizes : LoadDiceTemplateOk(size)
    \/ LoadDiceTemplateFail

\* the program as wired: asset loads, the button, the key, timers, frames
NextUI ==
    \/ Loads
    \/ \E point \in Targets : Click(point)
    \/ \E key \in Keys : KeyDown(key)
    \/ \E t \in timers : Timeout(t)
    \/ Animate
    \/ Tick

\* the same with spawnDie and clearAllDice also called directly
Next ==
    \/ NextUI
    \/ \E r \in SpawnRequests : SpawnDieCall(r.position, r.quaternion)
    \/ ClearCall

Spec == Init /\ [][Next]_vars

SpecUI == Init /\ [][NextUI]_vars

\* the wired program under the event loop's guarantees: time passes, every
\* timer callback that is due is run, and so is a requested animation frame
SpecLive ==
    /\ Init /\ [][NextUI]_vars
    /\ WF_vars(Tick)
    /\ \A id \in 1..MaxDice : WF_vars(\E t \in timers : t.id = id /\ Timeout(t))
    /\ WF_vars(Animate)

(* ------------------------------- claims -------------------------------- *)

\* a step in which the handler op ran (the clock's Tick leaves last alone)
Ran(ops) == last' # last /\ last'.op \in ops

InWorld(id) == Count(worldBodies, DieRef(id))
InScene(id) == Count(sceneChildren, DieRef(id))
Entries(id) == Cardinality({i \in 1..Len(diceObjects) : diceObjects[i].id = id})

\* C1: a spawn request (spawnDie call or roll-button click) made while the
\* die template is not loaded returns null and leaves the live collection,
\* the world's bodies, the scene and the timers as they were; nothing is
\* queued: a die is added only by a spawn request made with the template
\* loaded, never by the template's load or any other handler.
C1_RejectedNotQueued ==
    [][/\ (Ran(SpawnOps) /\ ~diceTemplate.loaded)
            => /\ last'.ret = 0
               /\ UNCHANGED <<diceObjects, worldBodies, sceneChildren, timers>>
       /\ (LiveIds(diceObjects') \ LiveIds(diceObjects) # {})
            => /\ Ran(SpawnOps)
               /\ diceTemplate.loaded
               /\ LiveIds(diceObjects') \ LiveIds(diceObjects) = {last'.ret}
       /\ Ran({"loadDice"})
            => UNCHANGED <<diceObjects, worldBodies, sceneChildren, timers>>]_vars

\* a spawnDie call was rejected while the template was still loading
C1_Witness ==
    /\ last.op = "spawnDie" /\ last.ret = 0
    /\ ~diceTemplate.loaded /\ diceLoad = "pending"
    /\ stageLoad = "done"

\* C2: after clearAllDice or the 'R' key handler the live collection is
\* empty, and every die that was live when it began has its body out of the
\* world and its mesh out of the scene.
C2_ClearEmpties ==
    last.op \in ClearOps =>
        /\ diceObjects = <<>>
        /\ \A id \in last.pre : InWorld(id) = 0 /\ InScene(id) = 0

\* a clear that began with two live dice
C2_Witness == last.op \in ClearOps /\ Cardinality(last.pre) >= 2

\* C3: between handlers every live entry has its body in the world once and
\* its mesh in the scene once, entries have distinct bodies, and every die
\* body of the world and die mesh of the scene belongs to a live entry.
C3_PairedBodyAndVisual ==
    /\ \A i \in 1..Len(diceObjects) :
          /\ InWorld(diceObjects[i].id) = 1
          /\ InScene(diceObjects[i].id) = 1
          /\ Entries(diceObjects[i].id) = 1
    /\ \A i \in 1..Len(worldBodies) :
          worldBodies[i].kind = "die" => Entries(worldBodies[i].id) = 1
    /\ \A i \in 1..Len(sceneChildren) :
          sceneChildren[i].kind = "die" => Entries(sceneChildren[i].id) = 1

\* a timeout removed one of two live dice, the other stays
C3_Witness ==
    /\ last.op = "timeout" /\ last.ret \in last.pre
    /\ Len(diceObjects) = 1 /\ Cardinality(last.pre) = 2

\* C4: every live die has exactly one pending timer, due when the die is
\* 90 s old; the timer's callback
\* removes the die only when 90 s have passed since its spawn, and then
\* takes its one body out of the world, its one mesh out of the scene and
\* its entry out of the collection, and leaves no timer for it behind; a
\* die younger than 90 s leaves the collection only by a clear; and every
\* live die is removed in the end (by its timer if nothing cleared it).
C4_TimeoutOnceAfterDelay ==
    /\ [](\A i \in 1..Len(diceObjects) :
            /\ Cardinality({t \in timers : t.id = diceObjects[i].id}) = 1
            /\ \A t \in timers : t.id = diceObjects[i].id
                    => t.remaining + diceObjects[i].age = RemoveDelay)
    /\ [][(Ran({"timeout"}) /\ last'.ret \in LiveIds(diceObjects))
            => /\ \A i \in 1..Len(diceObjects) :
                     diceObjects[i].id = last'.ret => diceObjects[i].age >= RemoveDelay
               /\ InWorld(last'.ret) = 1 /\ InScene(last'.ret) = 1
               /\ Count(worldBodies', DieRef(last'.ret)) = 0
               /\ Count(sceneChildren', DieRef(last'.ret)) = 0
               /\ last'.ret \notin LiveIds(diceObjects')
               /\ LiveIds(diceObjects') = LiveIds(diceObjects) \ {last'.ret}
               /\ \A t \in timers' : t.id # last'.ret]_vars
    /\ [][\A i \in 1..Len(diceObjects) :
            (diceObjects[i].age < RemoveDelay /\ diceObjects[i].id \notin LiveIds(diceObjects'))
                => Ran(ClearOps \cup {"click"})]_vars
    /\ \A id \in 1..MaxDice :
          (id \in LiveIds(diceObjects)) ~> (id \notin LiveIds(diceObjects))

\* a timeout removed a live die
C4_Witness == last.op = "timeout" /\ last.ret \in last.pre /\ InWorld(last.ret) = 0

SetMax(S) == CHOOSE x \in S : \A y \in S : y <= x

\* the floor the claims speak of: the stage top, or the highest top surface
\* (body Y + half-height) of a die whose body is within the radius of the target
EffectiveFloor(dice, position, size) ==
    SetMax({stageTopY} \cup
           {dice[i].body.pos[2] + dice[i].halfHeight :
               i \in {j \in 1..Len(dice) :
                         WithinRadius(dice[j].body.pos[1] - position[1],
                                      dice[j].body.pos[3] - position[3], size)}})

\* the die the last spawn created
NewestDie(dice) == dice[Len(dice)]

\* C5 (as claimed): a spawn made with the template loaded places the body
\* at a Y of at least the effective floor plus the new die's half-height.
C5_InitialYAboveFloor ==
    [][(Ran(SpawnOps) /\ last'.ret # 0)
          => last'.placed[2] >=
                EffectiveFloor(IF last'.op = "click" THEN <<>> ELSE diceObjects,
                               last'.req,
                               BoxSize(diceTemplate.size, NewestDie(diceObjects').mesh.quat))
                + NewestDie(diceObjects').halfHeight]_vars

\* C6: after a frame's syncAll every live die's mesh position and
\* quaternion equal its body's.
C6_SyncCopiesBody ==
    last.op = "animate" =>
        \A i \in 1..Len(diceObjects) :
            /\ diceObjects[i].mesh.pos = diceObjects[i].body.pos
            /\ diceObjects[i].mesh.quat = diceObjects[i].body.quat

\* a frame after the solver moved and turned a die spawned elsewhere
C6_Witness ==
    /\ last.op = "animate"
    /\ \E i \in 1..Len(diceObjects) :
          /\ diceObjects[i].body \in PhysPoses
          /\ diceObjects[i].mesh = diceObjects[i].body

\* C7: a frame steps the world, then copies the transforms, then renders:
\* what the frame rendered is, for every live die, the pose its body has
\* after the frame's step.
C7_FrameOrder ==
    last.op = "animate" =>
        last.drawn = {[id |-> diceObjects[i].id, pos |-> diceObjects[i].body.pos,
                       quat |-> diceObjects[i].body.quat] : i \in 1..Len(diceObjects)}

\* a frame that rendered a die where the solver had moved it
C7_Witness ==
    /\ last.op = "animate"
    /\ \E p \in last.drawn : [pos |-> p.pos, quat |-> p.quat] \in PhysPoses

\* C8: a clear that follows a clear changes neither the live collection,
\* nor the world's bodies, nor the scene.
C8_ClearIdempotent ==
    [][(Ran(ClearOps) /\ last.op \in ClearOps)
          => UNCHANGED <<diceObjects, worldBodies, sceneChildren>>]_vars

\* a second clear in a row, with static bodies and the stage in place
C8_Witness ==
    /\ last.op \in ClearOps /\ last.afterClear
    /\ stageLoad = "done" /\ nextId > 1

\* C9: with every spawn made by the roll button, which clears first, the
\* live collection never holds more than one die.
C9_AtMostOneDie == Len(diceObjects) <= 1

\* a click that replaced a live die by a new one
C9_Witness == last.op = "click" /\ last.pre # {} /\ Len(diceObjects) = 1

\* a spawn with the stage loaded and no dice present
StageSpawn ==
    /\ last.op \in SpawnOps /\ last.ret # 0
    /\ stageLoad = "done"
    /\ last.op = "click" \/ last.pre = {}

\* C10 (as claimed): with the stage loaded and no dice present the die is
\* placed at Y = stage top + half-height + clearance, X and Z the target's.
C10_ExactlyMinSafe ==
    StageSpawn =>
        last.placed = <<last.req[1],
                        stageTopY + NewestDie(diceObjects).halfHeight + Clearance,
                        last.req[3]>>

\* C10 (amended): the die is placed at the requested Y raised to at least
\* stage top + half-height + clearance, X and Z the target's; the roll
\* button requests stage top + dieHalf + max(1.5, 2 dieHalf), which is
\* where its die is placed.
C10_RequestedOrMinSafe ==
    StageSpawn =>
        /\ last.placed = <<last.req[1],
                           Max2(last.req[2],
                                stageTopY + NewestDie(diceObjects).halfHeight + Clearance),
                           last.req[3]>>
        /\ last.op = "click" =>
              /\ last.req[2] = stageTopY + NewestDie(diceObjects).halfHeight
                                + Max2(MinSpawnMargin, 2 * NewestDie(diceObjects).halfHeight)
              /\ last.placed[2] = last.req[2]

\* the roll button dropped a die from above the minimum safe height
C10_Witness ==
    /\ StageSpawn /\ last.op = "click" /\ stageTopY > 0
    /\ last.placed[2] > stageTopY + NewestDie(diceObjects).halfHeight + Clearance

\* the dice a spawn's scan looks at: a click clears the collection first
Scanned(op, dice) == IF op = "click" THEN <<>> ELSE dice

\* C11 (as claimed): the floor a spawn places against is the greater of the
\* stage top and the highest top surface among the live dice within the
\* exclusion radius of the target: the body is placed at the requested Y
\* raised to that floor + half-height + clearance, so dice outside the
\* radius raise nothing and with no live dice the floor is the stage top.
C11_FloorIsStageOrNearTop ==
    [][(Ran(SpawnOps) /\ last'.ret # 0)
          => last'.placed[2] =
                Max2(last'.req[2],
                     EffectiveFloor(Scanned(last'.op, diceObjects), last'.req,
                                    BoxSize(diceTemplate.size,
                                            NewestDie(diceObjects').mesh.quat))
                       + NewestDie(diceObjects').halfHeight + Clearance)]_vars

\* with every live die's visual where its body is, the scan does give the
\* greater of the stage top and the highest top within the radius
FloorOnSyncedDice ==
    [][(/\ Ran(SpawnOps) /\ last'.ret # 0
        /\ \A i \in 1..Len(diceObjects) : diceObjects[i].mesh.pos = diceObjects[i].body.pos)
          => last'.placed[2] =
                Max2(last'.req[2],
                     EffectiveFloor(Scanned(last'.op, diceObjects), last'.req,
                                    BoxSize(diceTemplate.size,
                                            NewestDie(diceObjects').mesh.quat))
                       + NewestDie(diceObjects').halfHeight + Clearance)]_vars

FrameOps == {"animate", "animateThrew"}

\* C12: the frame loop never stops: whatever has failed (an asset load, a
\* stage mesh's collider, a spawn with no template, a frame that threw in
\* its step or its render), a next frame is requested, and frames are run
\* again and again.
C12_FrameLoopGoesOn ==
    /\ [](frameRequested)
    /\ []<>(last.op \in FrameOps)

\* both loads failed, a click was rejected, a frame threw, and the next
\* frame is requested
C12_Witness ==
    /\ last.op = "animateThrew" /\ frameRequested
    /\ diceLoad = "failed" /\ stageLoad = "failed"

\* C13: after the stage load the fallback plane at the stage top is in the
\* world, and of the stage's meshes exactly those whose Trimesh could be
\* built have their static body: a mesh that failed is skipped alone.
C13_FailedMeshSkippedAlone ==
    stageLoad = "done" =>
        /\ Count(worldBodies, GroundRef(stageTopY)) = 1
        /\ \E stage \in Stages :
              /\ stage.top = stageTopY
              /\ \A m \in StageMeshes :
                    Count(worldBodies, StageMeshRef(m)) = IF m \in stage.failing THEN 0 ELSE 1

\* a stage whose first mesh failed: the plane and the second mesh's body
\* are in the world, with a die spawned on it
C13_Witness ==
    /\ stageLoad = "done"
    /\ Count(worldBodies, StageMeshRef(1)) = 0
    /\ Count(worldBodies, StageMeshRef(2)) = 1
    /\ Count(worldBodies, GroundRef(stageTopY)) = 1
    /\ diceObjects # <<>>

IsStatic(b) == b.kind \in {"ground", "stageMesh"}

\* the static bodies of the world, in the order they were added
StaticBodies(bodies) == SelectSeq(bodies, IsStatic)

\* C14: a failed template load is final: no load callback can run again,
\* the template stays null, every spawn returns null and no die, body,
\* visual or timer ever exists.  A failed stage load is final too and has
\* added no static body, no stage visual and no stage top.  After either
\* the next frame is still requested and can run.
C14_LoadFailuresAreFinal ==
    /\ diceLoad = "failed" =>
          /\ ~ENABLED LoadDiceTemplateFail
          /\ \A size \in TemplateSizes : ~ENABLED LoadDiceTemplateOk(size)
          /\ ~diceTemplate.loaded
          /\ last.op \in SpawnOps => last.ret = 0
          /\ diceObjects = <<>> /\ timers = {} /\ nextId = 1
          /\ WorldDieIds(worldBodies) = {}
          /\ frameRequested /\ ENABLED Animate
    /\ stageLoad = "failed" =>
          /\ ~ENABLED LoadStageFail
          /\ \A stage \in Stages : ~ENABLED LoadStageOk(stage.top, stage.failing)
          /\ StaticBodies(worldBodies) = <<>>
          /\ ~Has(sceneChildren, StageRootRef)
          /\ stageTopY = 0
          /\ frameRequested /\ ENABLED Animate

\* both loads have failed and a later spawn request was made
C14_Witness ==
    /\ diceLoad = "failed" /\ stageLoad = "failed"
    /\ last.op \in SpawnOps

\* C15 (as claimed): the stage's readiness is checked before the stage is
\* used: a spawn creates a die only when the stage load has completed, so
\* that the die is placed against the loaded stage top with the stage's
\* static bodies in the world.
C15_NoDieBeforeStageReady ==
    (last.op \in SpawnOps /\ last.ret # 0) =>
        /\ stageLoad = "done"
        /\ StaticBodies(worldBodies) # <<>>

\* the box of the die the last spawn created, as spawnDie measured it
NewestBox(dice) == BoxSize(diceTemplate.size, NewestDie(dice).mesh.quat)

\* C16 (as claimed): when a spawn returns a die, after the pre-roll, the
\* body's Y is at least the safe floor computed for its placement: the
\* greater of the stage top and the highest nearby die top found by the
\* scan, plus the die's half-height.
C16_AboveComputedFloor ==
    [][(Ran(SpawnOps) /\ last'.ret # 0)
          => NewestDie(diceObjects').body.pos[2] >=
                HighestTop(Scanned(last'.op, diceObjects), last'.req, NewestBox(diceObjects'))
                + NewestDie(diceObjects').halfHeight]_vars

\* C16 (amended): when a spawn returns a die, after the pre-roll, the body's
\* Y is at least stage top + the box's largest half extent + 0.05, hence at
\* least stage top + half-height: the second check clamps against the stage
\* only, not against the nearby dice.
C16_AboveStageAfterPreRoll ==
    (last.op \in SpawnOps /\ last.ret # 0) =>
        /\ NewestDie(diceObjects).body.pos[2] >=
              stageTopY + Max3(NewestBox(diceObjects)[1] \div 2,
                               NewestBox(diceObjects)[2] \div 2,
                               NewestBox(diceObjects)[3] \div 2) + ReclampMargin
        /\ NewestDie(diceObjects).body.pos[2] >= stageTopY + NewestDie(diceObjects).halfHeight

\* a die dropped from high above, pushed below the stage by the pre-roll
\* and lifted back by the second check
C16_Witness ==
    /\ last.op \in SpawnOps /\ last.ret # 0
    /\ stageLoad = "done"
    /\ NewestDie(diceObjects).body.quat = 1
    /\ NewestDie(diceObjects).body.pos[2] < last.placed[2]
    /\ NewestDie(diceObjects).body.pos[2] =
          stageTopY + NewestBox(diceObjects)[3] \div 2 + ReclampMargin

\* C17 (as claimed): when a spawn returns a die, the die's visual is at the
\* position of its body, also when the placement raised Y and when the
\* pre-roll moved the body.
C17_VisualAtBodyOnReturn ==
    (last.op \in SpawnOps /\ last.ret # 0) =>
        NewestDie(diceObjects).mesh.pos = NewestDie(diceObjects).body.pos

\* C18 (as claimed): in every state in which a spawn can run, the floor its
\* scan computes (tops and distances read as the code reads them) is the
\* floor computed from the bodies: top = body Y + half-height, distance
\* from the body's position, also when physics has stepped since the last
\* copy of the transforms.
C18_ScanMeasuresBodies ==
    (diceTemplate.loaded /\ nextId <= MaxDice) =>
        \A r \in SpawnRequests :
            HighestTop(diceObjects, r.position, BoxSize(diceTemplate.size, r.quaternion))
                = EffectiveFloor(diceObjects, r.position,
                                 BoxSize(diceTemplate.size, r.quaternion))

\* C19: the static stage bodies are created once, by the stage load, into a
\* world that held none, and no other step (spawn, clear, R key, timeout,
\* frame, template load, clock) adds, removes, reorders or moves one.
C19_StaticBodiesFixed ==
    [][IF Ran({"loadStage"})
       THEN StaticBodies(worldBodies) = <<>> /\ StaticBodies(worldBodies') # <<>>
       ELSE StaticBodies(worldBodies') = StaticBodies(worldBodies)]_vars

\* the plane and two mesh bodies are in the world after a die spawned on
\* them was removed by its timer
C19_Witness ==
    /\ last.op = "timeout" /\ last.ret \in last.pre
    /\ Len(StaticBodies(worldBodies)) = 3
    /\ nextId > MaxDice

\* dice without the die id, the others as they are and in their order
Without(dice, id) == SelectSeq(dice, LAMBDA d : d.id # id)

\* C20: a removal timer's callback touches its own die only: it uses up its
\* own timer and leaves every other timer's remaining time as it is; if its
\* die is live it removes that die's entry, body and visual and nothing
\* else; if its die was cleared before, it changes no die, body or visual,
\* however many dice were spawned since.
C20_TimerTouchesOwnDieOnly ==
    [][Ran({"timeout"})
          => /\ timers' = {t \in timers : t.id # last'.ret}
             /\ diceObjects' = Without(diceObjects, last'.ret)
             /\ IF last'.ret \in LiveIds(diceObjects)
                THEN /\ worldBodies' = RemoveBody(worldBodies, DieRef(last'.ret))
                     /\ sceneChildren' = SceneRemove(sceneChildren, DieRef(last'.ret))
                ELSE UNCHANGED <<diceObjects, worldBodies, sceneChildren>>]_vars

\* the timer of a cleared die fired while a die spawned later was live and
\* young: that die is still there, in the world and in the scene
C20_Witness ==
    /\ last.op = "timeout" /\ last.ret \notin last.pre
    /\ \E i \in 1..Len(diceObjects) :
          /\ diceObjects[i].id > last.ret
          /\ diceObjects[i].age < RemoveDelay
          /\ InWorld(diceObjects[i].id) = 1 /\ InScene(diceObjects[i].id) = 1

====
